---- MODULE Spec2Model ----
(***************************************************************************)
(* Libro Diario: a ledger kept in one JSON file (core/repositorio.py,      *)
(* core/libro_diario.py) and fed from a bank CSV export (cli/main.py).     *)
(*                                                                         *)
(* Texts that the program parses are sequences of one-character strings.   *)
(* A float is a record [t, v, s]: t = "num" with v the value in hundredths *)
(* or t = "nan"; the same record shape carries the other JSON values a     *)
(* stored row may hold (t = "str" with the text s, t = "null").            *)
(***************************************************************************)
EXTENDS Integers, Sequences, FiniteSets, TLC

VARIABLES
    exists,     \* CLI: whether data/libro_diario.json exists
    file,       \* CLI: the content of data/libro_diario.json, a sequence of cells
    out,        \* CLI and reader: what the last operation computed and reported
    added,      \* CLI: history, the entries handed to add_entry that returned
    fresh,      \* CLI: history, TRUE when the run started with no store file
    csv,        \* reader: the bank CSV, the records csv.reader yields
    cfile,      \* concurrent: content of the shared store file
    pc,         \* concurrent: position of each caller inside add_entry
    loaded,     \* concurrent: rows each caller got from storage.load()
    entry,      \* concurrent: the entry each caller adds
    pending,    \* concurrent: cells each caller has still to write
    offset,     \* concurrent: file offset of each caller's open file
    log,        \* concurrent: history, the loads, opens and closes in their order
    base,       \* concurrent: history, rows persisted before any caller began
    seen        \* concurrent: what an observer's load() returned last

vars == <<exists, file, out, added, fresh, csv, cfile, pc, loaded, entry,
          pending, offset, log, base, seen>>

------------------------------------------------------------------------------
(* Bounds of the model *)

\* rows a store may hold before an add is refused by the model
MaxRows == 2
\* lines of a bank CSV after its header
MaxLines == 2
\* cells of text one write() call of a save transfers
ChunkCells == 4

------------------------------------------------------------------------------
(* Texts *)

Digits == <<"0", "1", "2", "3", "4", "5", "6", "7", "8", "9">>

IsDigit(c) == \E i \in 1..10 : Digits[i] = c

DigitVal(c) == (CHOOSE i \in 1..10 : Digits[i] = c) - 1

AllDigits(s) == \A i \in 1..Len(s) : IsDigit(s[i])

RECURSIVE NumVal(_)
NumVal(s) ==
    IF s = <<>> THEN 0
    ELSE NumVal(SubSeq(s, 1, Len(s) - 1)) * 10 + DigitVal(s[Len(s)])

RECURSIVE Pow10(_)
Pow10(n) == IF n = 0 THEN 1 ELSE 10 * Pow10(n - 1)

\* n >= 0 written with at least w digits: the format codes %04d, %02d
RECURSIVE ZeroPad(_, _)
ZeroPad(n, w) ==
    IF w <= 1 /\ n < 10 THEN <<Digits[n + 1]>>
    ELSE ZeroPad(n \div 10, w - 1) \o <<Digits[(n % 10) + 1]>>

\* str.strip(): leading and trailing blanks removed
RECURSIVE lstrip(_)
lstrip(s) == IF s # <<>> /\ Head(s) = " " THEN lstrip(Tail(s)) ELSE s

RECURSIVE rstrip(_)
rstrip(s) ==
    IF s # <<>> /\ s[Len(s)] = " " THEN rstrip(SubSeq(s, 1, Len(s) - 1)) ELSE s

strip(s) == rstrip(lstrip(s))

\* str.replace(old, new) for a one-character old and a new of length 0 or 1
RECURSIVE replace(_, _, _)
replace(s, old, new) ==
    IF s = <<>> THEN <<>>
    ELSE (IF Head(s) = old THEN new ELSE <<Head(s)>>) \o replace(Tail(s), old, new)

\* positions of character c in s, ascending
Positions(s, c) == {i \in 1..Len(s) : s[i] = c}

\* results of operations that may raise
Ok(v) == [ok |-> TRUE, val |-> v, err |-> ""]
RaiseAs(kind, v) == [ok |-> FALSE, val |-> v, err |-> kind]
Raise(v) == RaiseAs("ValueError", v)

------------------------------------------------------------------------------
(* Dates: datetime.date as [y, m, d] *)

IsLeap(y) == (y % 4 = 0 /\ y % 100 # 0) \/ y % 400 = 0

DaysInMonth(y, m) ==
    IF m = 2 THEN (IF IsLeap(y) THEN 29 ELSE 28)
    ELSE IF m \in {4, 6, 9, 11} THEN 30 ELSE 31

ValidDate(y, m, d) ==
    /\ y >= 1 /\ y <= 9999
    /\ m >= 1 /\ m <= 12
    /\ d >= 1 /\ d <= DaysInMonth(y, m)

NoDate == [y |-> 0, m |-> 0, d |-> 0]

\* date.isoformat(): YYYY-MM-DD
isoformat(dt) ==
    ZeroPad(dt.y, 4) \o <<"-">> \o ZeroPad(dt.m, 2) \o <<"-">> \o ZeroPad(dt.d, 2)

\* date.fromisoformat(s) for the extended calendar form YYYY-MM-DD
fromisoformat(s) ==
    IF /\ Len(s) = 10
       /\ s[5] = "-" /\ s[8] = "-"
       /\ AllDigits(SubSeq(s, 1, 4)) /\ AllDigits(SubSeq(s, 6, 7))
       /\ AllDigits(SubSeq(s, 9, 10))
       /\ ValidDate(NumVal(SubSeq(s, 1, 4)), NumVal(SubSeq(s, 6, 7)),
                    NumVal(SubSeq(s, 9, 10)))
    THEN Ok([y |-> NumVal(SubSeq(s, 1, 4)), m |-> NumVal(SubSeq(s, 6, 7)),
             d |-> NumVal(SubSeq(s, 9, 10))])
    ELSE Raise(NoDate)

\* a %d or %m field of strptime: one or two digits, not zero
DayMonthField(f) == Len(f) \in {1, 2} /\ AllDigits(f) /\ NumVal(f) >= 1

\* datetime.strptime(s.strip(), "%d/%m/%Y").date()
_parse_ddmmyyyy(s) ==
    LET t == strip(s)
        sl == Positions(t, "/")
    IN  IF Cardinality(sl) # 2 THEN Raise(NoDate)
        ELSE LET i == CHOOSE x \in sl : \A z \in sl : x <= z
                 j == CHOOSE x \in sl : \A z \in sl : z <= x
                 dd == SubSeq(t, 1, i - 1)
                 mm == SubSeq(t, i + 1, j - 1)
                 yy == SubSeq(t, j + 1, Len(t))
             IN  IF /\ DayMonthField(dd) /\ NumVal(dd) <= 31
                    /\ DayMonthField(mm) /\ NumVal(mm) <= 12
                    /\ Len(yy) = 4 /\ AllDigits(yy)
                    /\ ValidDate(NumVal(yy), NumVal(mm), NumVal(dd))
                 THEN Ok([y |-> NumVal(yy), m |-> NumVal(mm), d |-> NumVal(dd)])
                 ELSE Raise(NoDate)

------------------------------------------------------------------------------
(* Floats and the other JSON values of a row *)

Num(v) == [t |-> "num", v |-> v, s |-> <<>>]
NaN == [t |-> "nan", v |-> 0, s |-> <<>>]
JStr(s) == [t |-> "str", v |-> 0, s |-> s]
JNull == [t |-> "null", v |-> 0, s |-> <<>>]

IsFloat(x) == x.t \in {"num", "nan"}

\* x < 0 and x >= 0 on floats: every comparison with NaN is false
FLt0(x) == x.t = "num" /\ x.v < 0
FGe0(x) == x.t = "num" /\ x.v >= 0

\* abs(x)
FAbs(x) == IF x.t = "num" /\ x.v < 0 THEN Num(-x.v) ELSE x

\* x + y and x - y
FAdd(x, y) == IF x.t = "num" /\ y.t = "num" THEN Num(x.v + y.v) ELSE NaN
FSub(x, y) == IF x.t = "num" /\ y.t = "num" THEN Num(x.v - y.v) ELSE NaN

\* x == y on floats: NaN equals nothing
FEq(x, y) == x.t = "num" /\ y.t = "num" /\ x.v = y.v

\* the digits and at most one point of an unsigned decimal text, in hundredths
\* (exact for texts with at most two digits after the point)
DecimalOk(b) ==
    /\ \A i \in 1..Len(b) : IsDigit(b[i]) \/ b[i] = "."
    /\ Cardinality(Positions(b, ".")) <= 1
    /\ \E i \in 1..Len(b) : IsDigit(b[i])

DecimalVal(b) ==
    IF Positions(b, ".") = {} THEN NumVal(b) * 100
    ELSE LET p == CHOOSE x \in Positions(b, ".") : TRUE
             fr == SubSeq(b, p + 1, Len(b))
         IN  NumVal(SubSeq(b, 1, p - 1)) * 100 + (NumVal(fr) * 100) \div Pow10(Len(fr))

\* float(text): optional blanks, optional sign, then "nan" or a decimal number
ParseFloat(s) ==
    LET t == strip(s)
        signed == t # <<>> /\ Head(t) \in {"+", "-"}
        b == IF signed THEN Tail(t) ELSE t
        neg == signed /\ Head(t) = "-"
    IN  IF b = <<"n", "a", "n">> THEN Ok(NaN)
        ELSE IF DecimalOk(b)
             THEN Ok(Num(IF neg THEN -DecimalVal(b) ELSE DecimalVal(b)))
             ELSE Raise(NaN)

\* float(x) of a JSON value: a number as it is, a string parsed, None a TypeError
ToFloat(x) ==
    IF IsFloat(x) THEN Ok(x)
    ELSE IF x.t = "str" THEN ParseFloat(x.s)
    ELSE RaiseAs("TypeError", NaN)

\* _parse_euro_amount: '-2,37' -> -2.37, '1.234,56' -> 1234.56, unparsable -> 0.0
_parse_euro_amount(s) ==
    LET t == replace(replace(strip(s), ".", <<>>), ",", <<".">>)
        r == ParseFloat(t)
    IN  IF r.ok THEN r.val ELSE Num(0)

\* f"{x:.2f}" of a float, as the prompt shows a suggested amount
Format2f(x) ==
    IF x.t = "nan" THEN <<"n", "a", "n">>
    ELSE LET a == IF x.v < 0 THEN -x.v ELSE x.v
         IN  (IF x.v < 0 THEN <<"-">> ELSE <<>>)
             \o ZeroPad(a \div 100, 1) \o <<".">> \o ZeroPad(a % 100, 2)

------------------------------------------------------------------------------
(* core/libro_diario.py: Entry, serialize, deserialize *)

\* an Entry: fecha a date, concepto a text, debe and haber floats
Entry(fecha, concepto, debe, haber) ==
    [fecha |-> fecha, concepto |-> concepto, debe |-> debe, haber |-> haber]

NoEntry == Entry(NoDate, <<>>, NaN, NaN)

\* float(e.debe) of an Entry built by the CLI never raises: debe is a float
serialize(e) ==
    [fecha |-> isoformat(e.fecha),
     concepto |-> e.concepto,
     debe |-> ToFloat(e.debe).val,
     haber |-> ToFloat(e.haber).val]

deserialize(row) ==
    LET f == fromisoformat(row.fecha)
        d == ToFloat(row.debe)
        h == ToFloat(row.haber)
    IN  IF ~f.ok THEN RaiseAs(f.err, NoEntry)
        ELSE IF ~d.ok THEN RaiseAs(d.err, NoEntry)
        ELSE IF ~h.ok THEN RaiseAs(h.err, NoEntry)
        ELSE Ok(Entry(f.val, row.concepto, d.val, h.val))

------------------------------------------------------------------------------
(* core/repositorio.py: the JSON text of the store file *)

(* The file content is a sequence of cells.  json.dumps writes "[", then   *)
(* for each row a cell "{" carrying fecha, debe and haber, one cell per    *)
(* character of concepto and a cell "}", then "]".  A row with a longer    *)
(* concepto is a longer piece of text.  "hole" is a byte of a gap left by  *)
(* a write past the end of the file.                                       *)
Cell(k, f, c, d, h) == [k |-> k, f |-> f, c |-> c, d |-> d, h |-> h]

Mark(k) == Cell(k, <<>>, "", JNull, JNull)

Chars(s) == [i \in 1..Len(s) |-> Cell("chr", <<>>, s[i], JNull, JNull)]

EncodeRow(r) ==
    <<Cell("{", r.fecha, "", r.debe, r.haber)>> \o Chars(r.concepto) \o <<Mark("}")>>

RECURSIVE EncodeRows(_)
EncodeRows(rows) ==
    IF rows = <<>> THEN <<>> ELSE EncodeRow(Head(rows)) \o EncodeRows(Tail(rows))

\* json.dumps(data, ensure_ascii=False, indent=2)
dumps(rows) == <<Mark("[")>> \o EncodeRows(rows) \o <<Mark("]")>>

\* the rows between the brackets; fails on anything that is not a row
RECURSIVE DecodeRows(_)
DecodeRows(cells) ==
    IF cells = <<>> THEN Ok(<<>>)
    ELSE IF Head(cells).k # "{" THEN Raise(<<>>)
    ELSE LET ends == {i \in 2..Len(cells) : cells[i].k # "chr"}
         IN  IF ends = {} THEN Raise(<<>>)
             ELSE LET j == CHOOSE x \in ends : \A z \in ends : x <= z
                      rest == DecodeRows(SubSeq(cells, j + 1, Len(cells)))
                      row == [fecha |-> cells[1].f,
                              concepto |-> [i \in 1..(j - 2) |-> cells[i + 1].c],
                              debe |-> cells[1].d,
                              haber |-> cells[1].h]
                  IN  IF cells[j].k = "}" /\ rest.ok
                      THEN Ok(<<row>> \o rest.val)
                      ELSE Raise(<<>>)

\* json.loads(text): a JSONDecodeError unless the text is one whole array
loads(text) ==
    IF Len(text) >= 2 /\ text[1].k = "[" /\ text[Len(text)].k = "]"
    THEN DecodeRows(SubSeq(text, 2, Len(text) - 1))
    ELSE Raise(<<>>)

\* a slip: the file is opened without being emptied
KeepContent(content) == content

\* open(path, "w") inside Path.write_text: the file is emptied
Truncate(content) == <<>>

\* write(chunk) at offset off of an open file: the cells at off+1.. are
\* replaced, the file grows as needed, a gap before off is filled with holes
WriteAt(content, off, chunk) ==
    LET n == IF Len(content) >= off + Len(chunk) THEN Len(content)
             ELSE off + Len(chunk)
    IN  [i \in 1..n |->
            IF i > off /\ i <= off + Len(chunk) THEN chunk[i - off]
            ELSE IF i <= Len(content) THEN content[i]
            ELSE Mark("hole")]

\* JsonStorage.__init__: the file is created holding "[]" when it is missing
InitContent(ex, content) == IF ex THEN content ELSE dumps(<<>>)

\* JsonStorage.load
load(content) == loads(content)

\* a slip: rows that are not well-formed entries are dropped on saving
RECURSIVE EncodeValidRows(_)
EncodeValidRows(rows) ==
    IF rows = <<>> THEN <<>>
    ELSE (IF deserialize(Head(rows)).ok THEN EncodeRow(Head(rows)) ELSE <<>>)
         \o EncodeValidRows(Tail(rows))

save_valid(rows) == <<Mark("[")>> \o EncodeValidRows(rows) \o <<Mark("]")>>

\* JsonStorage.save_all seen by a single caller: the text that ends up in the file
save_all(rows) == dumps(rows)

------------------------------------------------------------------------------
(* core/libro_diario.py: add_entry, list_entries *)

\* a slip: the new row is put in front of the loaded rows
AppendRowInFront(rows, e) == <<serialize(e)>> \o rows

\* rows.append(serialize(e))
AppendRow(rows, e) == Append(rows, serialize(e))

\* add_entry run by a single caller on a file holding `content`:
\* the content afterwards, or the error of load()
add_entry(content, e) ==
    LET rows == load(content)
    IN  IF rows.ok THEN Ok(save_all(AppendRow(rows.val, e)))
        ELSE RaiseAs("JSONDecodeError", content)

\* a slip: a row that does not deserialize is skipped
RECURSIVE DeserializeSkipping(_)
DeserializeSkipping(rows) ==
    IF rows = <<>> THEN Ok(<<>>)
    ELSE LET e == deserialize(Head(rows))
             rest == DeserializeSkipping(Tail(rows))
         IN  IF e.ok THEN Ok(<<e.val>> \o rest.val) ELSE rest

\* [deserialize(r) for r in rows]: the first failure aborts the comprehension
RECURSIVE DeserializeAll(_)
DeserializeAll(rows) ==
    IF rows = <<>> THEN Ok(<<>>)
    ELSE LET e == deserialize(Head(rows))
             rest == DeserializeAll(Tail(rows))
         IN  IF ~e.ok THEN RaiseAs(e.err, <<>>)
             ELSE IF ~rest.ok THEN rest
             ELSE Ok(<<e.val>> \o rest.val)

list_entries(content) ==
    LET rows == load(content)
    IN  IF rows.ok THEN DeserializeAll(rows.val) ELSE RaiseAs("JSONDecodeError", <<>>)

------------------------------------------------------------------------------
(* cli/main.py: the bank CSV reader *)

(* A CSV file is the sequence of records csv.reader(f, delimiter=';')      *)
(* yields, each a sequence of fields (texts); a blank line is the empty    *)
(* record, an empty file the empty sequence.  A row (a dict) is a function *)
(* from column names to values.                                            *)

Fecha == <<"F", "e", "c", "h", "a">>
FechaValor == <<"F", "e", "c", "h", "a", " ", "v", "a", "l", "o", "r">>
Concepto == <<"C", "o", "n", "c", "e", "p", "t", "o">>
Importe == <<"I", "m", "p", "o", "r", "t", "e">>
SaldoPosterior ==
    <<"S", "a", "l", "d", "o", " ", "P", "o", "s", "t", "e", "r", "i", "o", "r">>

\* the columns kept of every line: header[-5:], r[-5:]
KeptColumns == 5

\* s[-n:]
LastN(s, n) == IF Len(s) <= n THEN s ELSE SubSeq(s, Len(s) - n + 1, Len(s))

\* dict(zip(keys, vals)): pairs up to the shorter length, a repeated key keeps
\* its last value
DictZip(keys, vals) ==
    LET n == IF Len(keys) <= Len(vals) THEN Len(keys) ELSE Len(vals)
    IN  [k \in {keys[i] : i \in 1..n} |->
            vals[CHOOSE i \in 1..n :
                    keys[i] = k /\ \A j \in 1..n : keys[j] = k => j <= i]]

\* row.get(key, default)
Get(row, key, default) == IF key \in DOMAIN row THEN row[key] ELSE default

\* a slip: a line with fewer fields than columns is not skipped
RECURSIVE CollectShortRows(_, _)
CollectShortRows(headers, lines) ==
    IF lines = <<>> THEN <<>>
    ELSE LET r == Head(lines)
             rest == CollectShortRows(headers, Tail(lines))
         IN  IF r = <<>> THEN rest
             ELSE <<DictZip(headers, LastN(r, KeptColumns))>> \o rest

\* the loop over the lines after the header (main.py 26-34 and 54-60)
RECURSIVE CollectRows(_, _)
CollectRows(headers, lines) ==
    IF lines = <<>> THEN <<>>
    ELSE LET r == Head(lines)
             data == LastN(r, KeptColumns)
             rest == CollectRows(headers, Tail(lines))
         IN  IF r = <<>> THEN rest
             ELSE IF Len(data) # KeptColumns THEN rest
             ELSE <<DictZip(headers, data)>> \o rest

_iter_bank_csv_rows(f) ==
    IF f = <<>> \/ Head(f) = <<>> THEN <<>>
    ELSE CollectRows(LastN(Head(f), KeptColumns), Tail(f))

\* a slip: the index is used as it is, counting from zero
read_row_zero_based(f, idx) ==
    IF f = <<>> THEN RaiseAs("ValueError", <<>>)
    ELSE LET rows == CollectRows(LastN(Head(f), KeptColumns), Tail(f))
         IN  IF idx < 0 \/ idx >= Len(rows)
             THEN RaiseAs("IndexError", <<>>)
             ELSE Ok(rows[idx + 1])

_read_bank_csv_row(f, idx_one_based) ==
    IF f = <<>> THEN RaiseAs("ValueError", <<>>)
    ELSE LET rows == CollectRows(LastN(Head(f), KeptColumns), Tail(f))
             real_index == idx_one_based - 1
         IN  IF real_index < 0 \/ real_index >= Len(rows)
             THEN RaiseAs("IndexError", <<>>)
             ELSE Ok(rows[real_index + 1])

------------------------------------------------------------------------------
(* cli/main.py: the bodies of the commands *)

\* a slip: the month is written without its leading zero
YearMonthUnpadded(dt) == ZeroPad(dt.y, 4) \o <<"-">> \o ZeroPad(dt.m, 1)

\* ym = f"{d.year:04d}-{d.month:02d}"
YearMonth(dt) == ZeroPad(dt.y, 4) \o <<"-">> \o ZeroPad(dt.m, 2)

\* bank-month: the filter loop (main.py 170-181)
RECURSIVE MonthFilter(_, _)
MonthFilter(rows, wanted) ==
    IF rows = <<>> THEN <<>>
    ELSE LET row == Head(rows)
             fecha_txt == strip(Get(row, Fecha, <<>>))
             d == _parse_ddmmyyyy(fecha_txt)
             rest == MonthFilter(Tail(rows), wanted)
         IN  IF fecha_txt = <<>> THEN rest
             ELSE IF ~d.ok THEN rest
             ELSE IF YearMonth(d.val) = wanted THEN <<row>> \o rest
             ELSE rest

\* bank-month: total += importe_val over the filtered rows, from 0.0
RECURSIVE MonthTotal(_, _)
MonthTotal(filtered, total) ==
    IF filtered = <<>> THEN total
    ELSE MonthTotal(Tail(filtered),
                    FAdd(total, _parse_euro_amount(Get(Head(filtered), Importe, <<>>))))

\* bank-add: the suggested debe and haber of an amount (main.py 229-234)
SuggestSides(importe_val) ==
    IF FLt0(importe_val)
    THEN [debe |-> Num(0), haber |-> FAbs(importe_val)]
    ELSE [debe |-> importe_val, haber |-> Num(0)]

\* bank-add: the suggested entry for a row (main.py 220-234)
Suggest(row, fecha_col, today) ==
    LET fecha_txt == strip(Get(row, fecha_col, <<>>))
        d == _parse_ddmmyyyy(fecha_txt)
        importe_val == _parse_euro_amount(Get(row, Importe, <<"0">>))
        sides == SuggestSides(importe_val)
    IN  [concepto |-> strip(Get(row, Concepto, <<>>)),
         fecha |-> IF d.ok THEN isoformat(d.val) ELSE isoformat(today),
         importe |-> importe_val,
         debe |-> sides.debe,
         haber |-> sides.haber]

\* what the user answers to a prompt: end of input, or a line of text
Eof == [eof |-> TRUE, text |-> <<>>]
Line(s) == [eof |-> FALSE, text |-> s]

_prompt_with_default(reply, default) ==
    IF reply.eof THEN default
    ELSE IF strip(reply.text) = <<>> THEN default ELSE strip(reply.text)

\* bank-add: "Asegurar no-negativos" (main.py 264-269)
ForceNonNegative(x) == IF FLt0(x) THEN Num(0) ELSE x

\* bank-add: the final values of the interactive branch (main.py 242-269)
Interactive(sug, replies) ==
    LET fecha_final_str == _prompt_with_default(replies.fecha, sug.fecha)
        debe_final_str == _prompt_with_default(replies.debe, Format2f(sug.debe))
        haber_final_str == _prompt_with_default(replies.haber, Format2f(sug.haber))
        f == fromisoformat(fecha_final_str)
        d == ParseFloat(debe_final_str)
        h == ParseFloat(haber_final_str)
    IN  [fecha |-> IF f.ok THEN isoformat(f.val) ELSE sug.fecha,
         concepto |-> _prompt_with_default(replies.concepto, sug.concepto),
         debe |-> ForceNonNegative(IF d.ok THEN d.val ELSE sug.debe),
         haber |-> ForceNonNegative(IF h.ok THEN h.val ELSE sug.haber)]

\* bank-add: the final values (main.py 236-269)
Final(sug, no_interactive, replies) ==
    IF no_interactive
    THEN [fecha |-> sug.fecha, concepto |-> sug.concepto,
          debe |-> sug.debe, haber |-> sug.haber]
    ELSE Interactive(sug, replies)

------------------------------------------------------------------------------
(* cli/main.py: main, one action per command *)

NoSug == [concepto |-> <<>>, fecha |-> <<>>, importe |-> Num(0),
          debe |-> Num(0), haber |-> Num(0)]

(* What a command computed: status is "ok", "usage" (argparse rejected the   *)
(* arguments and exited), "raised" (an exception left main), "csv-error"     *)
(* ("Error leyendo CSV" was printed) or "empty" ("Sin movimientos").         *)
Out(cmd, status, err) ==
    [cmd |-> cmd, status |-> status, err |-> err, id |-> 0,
     entries |-> <<>>, rows |-> <<>>, sug |-> NoSug, wanted |-> <<>>,
     reported |-> FALSE, count |-> 0, total |-> Num(0),
     total_debe |-> Num(0), total_haber |-> Num(0)]

\* number of rows persisted in a file content (0 when it does not decode)
RowCount(content) == IF loads(content).ok THEN Len(loads(content).val) ELSE 0

RECURSIVE SumDebe(_)
SumDebe(entries) ==
    IF entries = <<>> THEN Num(0)
    ELSE FAdd(SumDebe(SubSeq(entries, 1, Len(entries) - 1)),
              entries[Len(entries)].debe)

RECURSIVE SumHaber(_)
SumHaber(entries) ==
    IF entries = <<>> THEN Num(0)
    ELSE FAdd(SumHaber(SubSeq(entries, 1, Len(entries) - 1)),
              entries[Len(entries)].haber)

\* the variables of the other specifications
OthersOfCli == <<cfile, pc, loaded, entry, pending, offset, log, base, seen>>

\* add --fecha F --concepto C --debe D --haber H   (main.py 118-129)
CmdAdd(a, today) ==
    LET d == ParseFloat(a.debe)
        h == ParseFloat(a.haber)
        content == InitContent(exists, file)
        f == fromisoformat(IF a.has_fecha THEN a.fecha ELSE isoformat(today))
        e == Entry(f.val, a.concepto, d.val, h.val)
        r == add_entry(content, e)
    IN  /\ RowCount(content) < MaxRows
        /\ IF ~d.ok \/ ~h.ok
           THEN /\ out' = Out("add", "usage", "SystemExit")
                /\ UNCHANGED <<exists, file, added>>
           ELSE /\ exists' = TRUE
                /\ IF ~f.ok
                   THEN /\ out' = Out("add", "raised", f.err)
                        /\ file' = content
                        /\ UNCHANGED added
                   ELSE IF ~r.ok
                   THEN /\ out' = Out("add", "raised", r.err)
                        /\ file' = content
                        /\ UNCHANGED added
                   ELSE /\ out' = [Out("add", "ok", "") EXCEPT !.entries = <<e>>]
                        /\ file' = r.val
                        /\ added' = Append(added, e)
        /\ UNCHANGED <<fresh, csv, OthersOfCli>>

\* list [--raw]   (main.py 118-119, 130-141)
CmdList(raw) ==
    LET content == InitContent(exists, file)
        r == list_entries(content)
    IN  /\ exists' = TRUE
        /\ file' = content
        /\ out' = IF ~r.ok THEN Out("list", "raised", r.err)
                  ELSE IF raw THEN [Out("list", "ok", "") EXCEPT !.entries = r.val]
                  ELSE [Out("list", "ok", "") EXCEPT
                            !.entries = r.val,
                            !.total_debe = SumDebe(r.val),
                            !.total_haber = SumHaber(r.val)]
        /\ UNCHANGED <<added, fresh, csv, OthersOfCli>>

\* bank --csv F --id N [--raw]   (main.py 118-119, 142-161)
CmdBank(f, id, raw) ==
    LET row == _read_bank_csv_row(f, id)
    IN  /\ exists' = TRUE
        /\ file' = InitContent(exists, file)
        /\ out' = IF ~row.ok
                  THEN [Out("bank", "csv-error", row.err) EXCEPT !.id = id]
                  ELSE [Out("bank", "ok", "") EXCEPT !.id = id, !.rows = <<row.val>>]
        /\ UNCHANGED <<added, fresh, csv, OthersOfCli>>

\* bank-month --csv F --month YYYY-MM [--raw]   (main.py 118-119, 162-204)
CmdBankMonth(f, wanted, raw) ==
    LET rows == _iter_bank_csv_rows(f)
        filtered == MonthFilter(rows, wanted)
    IN  /\ exists' = TRUE
        /\ file' = InitContent(exists, file)
        /\ out' = IF filtered = <<>>
                  THEN [Out("bank-month", "empty", "") EXCEPT !.wanted = wanted]
                  ELSE IF raw
                  THEN [Out("bank-month", "ok", "") EXCEPT
                            !.wanted = wanted, !.rows = filtered]
                  ELSE [Out("bank-month", "ok", "") EXCEPT
                            !.wanted = wanted, !.rows = filtered,
                            !.reported = TRUE,
                            !.count = Len(filtered),
                            !.total = MonthTotal(filtered, Num(0))]
        /\ UNCHANGED <<added, fresh, csv, OthersOfCli>>

\* bank-add --csv F --id N [--fecha-col COL] [--no-interactive]
\* (main.py 118-119, 205-283)
CmdBankAdd(f, id, fecha_col, no_interactive, replies, today) ==
    LET content == InitContent(exists, file)
        row == _read_bank_csv_row(f, id)
        sug == Suggest(row.val, fecha_col, today)
        fin == Final(sug, no_interactive, replies)
        e == Entry(fromisoformat(fin.fecha).val, fin.concepto, fin.debe, fin.haber)
        r == add_entry(content, e)
    IN  /\ RowCount(content) < MaxRows
        /\ exists' = TRUE
        /\ IF ~row.ok
           THEN /\ out' = Out("bank-add", "csv-error", row.err)
                /\ file' = content
                /\ UNCHANGED added
           ELSE IF ~r.ok
           THEN /\ out' = [Out("bank-add", "raised", r.err) EXCEPT
                               !.rows = <<row.val>>, !.sug = sug]
                /\ file' = content
                /\ UNCHANGED added
           ELSE /\ out' = [Out("bank-add", "ok", "") EXCEPT
                               !.rows = <<row.val>>, !.sug = sug, !.entries = <<e>>]
                /\ file' = r.val
                /\ added' = Append(added, e)
        /\ UNCHANGED <<fresh, csv, OthersOfCli>>

------------------------------------------------------------------------------
(* Inputs of the CLI specification *)

\* the system clock, date.today()
Clock == {[y |-> 2025, m |-> 11, d |-> 2]}

T_2025_09_04 == <<"2", "0", "2", "5", "-", "0", "9", "-", "0", "4">>
T_2025_9_4 == <<"2", "0", "2", "5", "-", "9", "-", "4">>

AddArg(has_fecha, fecha, concepto, debe, haber) ==
    [has_fecha |-> has_fecha, fecha |-> fecha, concepto |-> concepto,
     debe |-> debe, haber |-> haber]

\* argument lists of `add`: a plain entry, a negative debe on today's date,
\* an invalid --fecha, a --debe argparse rejects, and a NaN haber
AddArgs ==
    {AddArg(TRUE, T_2025_09_04, <<"a">>, <<"5">>, <<"0">>),
     AddArg(FALSE, <<>>, <<"b", "b">>, <<"-", "5">>, <<"2", ".", "5", "0">>),
     AddArg(TRUE, T_2025_9_4, <<"a">>, <<"5">>, <<"0">>),
     AddArg(TRUE, T_2025_09_04, <<"a">>, <<"a", "b", "c">>, <<"0">>),
     AddArg(TRUE, T_2025_09_04, <<>>, <<"0">>, <<"n", "a", "n">>)}

\* a bank export: a blank first column, then the five named columns
StatementHeader == <<<<>>, Fecha, FechaValor, Concepto, Importe, SaldoPosterior>>

Statement ==
    <<StatementHeader,
      << <<>>, <<"0", "4", "/", "0", "9", "/", "2", "0", "2", "5">>,
         <<"5", "/", "9", "/", "2", "0", "2", "5">>, <<" ", "x", " ">>,
         <<"-", "1", "0", ",", "0", "0">>, <<"9", "0", ",", "0", "0">> >>,
      <<>>,
      << <<>>, <<"s", "/", "f">>,
         <<"0", "1", "/", "1", "0", "/", "2", "0", "2", "5">>, <<"y">>,
         <<"1", ".", "2", "3", "4", ",", "5", "6">>, <<>> >>,
      << <<"1">>, <<"2">>, <<"3">> >>,
      << <<>>, <<"1", "5", "/", "0", "9", "/", "2", "0", "2", "5">>,
         <<"1", "5", "/", "0", "9", "/", "2", "0", "2", "5">>, <<"z">>,
         <<"n", "a", "n">>, <<"0">> >> >>

Replies(fecha, concepto, debe, haber) ==
    [fecha |-> fecha, concepto |-> concepto, debe |-> debe, haber |-> haber]

\* the user types nothing: every prompt meets the end of input
NoReplies == Replies(Eof, Eof, Eof, Eof)
\* Enter, a blank concepto, a negative debe, a haber that is no number
NegativeReplies ==
    Replies(Line(<<>>), Line(<<" ">>), Line(<<"-", "5">>), Line(<<"a", "b", "c">>))
\* an invalid date, a new concepto, a NaN debe, a haber with a leading blank
NanReplies ==
    Replies(Line(T_2025_9_4), Line(<<"b", "b">>), Line(<<"n", "a", "n">>),
            Line(<<" ", "3">>))

BankArg(f, id, raw) == [csv |-> f, id |-> id, raw |-> raw]

\* argument lists of `bank`
BankArgs ==
    {BankArg(Statement, 1, FALSE), BankArg(Statement, 4, TRUE),
     BankArg(<<>>, 1, FALSE)}

MonthArg(f, month, raw) == [csv |-> f, month |-> month, raw |-> raw]

\* argument lists of `bank-month`
MonthArgs ==
    {MonthArg(Statement, <<"2", "0", "2", "5", "-", "0", "9">>, FALSE),
     MonthArg(Statement, <<"2", "0", "2", "5", "-", "0", "9">>, TRUE),
     MonthArg(Statement, <<"2", "0", "2", "5", "-", "9">>, FALSE)}

BankAddArg(f, id, fecha_col, no_interactive, replies) ==
    [csv |-> f, id |-> id, fecha_col |-> fecha_col,
     no_interactive |-> no_interactive, replies |-> replies]

\* argument lists of `bank-add` with what the user types
BankAddArgs ==
    {BankAddArg(Statement, 1, Fecha, TRUE, NoReplies),
     BankAddArg(Statement, 2, Fecha, TRUE, NoReplies),
     BankAddArg(Statement, 3, FechaValor, TRUE, NoReplies),
     BankAddArg(Statement, 1, Fecha, FALSE, NoReplies),
     BankAddArg(Statement, 1, FechaValor, FALSE, NegativeReplies),
     BankAddArg(Statement, 2, Fecha, FALSE, NanReplies),
     BankAddArg(Statement, 0, Fecha, TRUE, NoReplies),
     BankAddArg(<<>>, 1, Fecha, FALSE, NoReplies)}

GoodRow == [fecha |-> T_2025_09_04, concepto |-> <<"a">>,
            debe |-> Num(100), haber |-> Num(0)]
TextRow == [fecha |-> T_2025_09_04, concepto |-> <<"b", "b">>,
            debe |-> JStr(<<"1", ".", "5">>), haber |-> Num(0)]
BadDateRow == [fecha |-> T_2025_9_4, concepto |-> <<"a">>,
               debe |-> Num(100), haber |-> Num(0)]
BadDebeRow == [fecha |-> T_2025_09_04, concepto |-> <<>>,
               debe |-> JStr(<<"a", "b", "c">>), haber |-> Num(0)]
BadHaberRow == [fecha |-> T_2025_09_04, concepto |-> <<"a">>,
                debe |-> Num(0), haber |-> JNull]

\* store files found at start-up: written by earlier runs, edited by hand
\* (rows that do not deserialize), or cut short by an interrupted save
InitFiles ==
    {dumps(<<>>), dumps(<<GoodRow>>), dumps(<<TextRow>>), dumps(<<BadDateRow>>),
     dumps(<<GoodRow, BadDebeRow>>), dumps(<<BadHaberRow, GoodRow>>),
     <<>>, <<Mark("[")>> \o EncodeRow(GoodRow)}

------------------------------------------------------------------------------
(* The CLI: a single user running one command after another *)

InitOthersOfCli ==
    /\ cfile = <<>>
    /\ pc = <<>>
    /\ loaded = <<>>
    /\ entry = <<>>
    /\ pending = <<>>
    /\ offset = <<>>
    /\ log = <<>>
    /\ base = <<>>
    /\ seen = Ok(<<>>)

Init ==
    /\ exists \in BOOLEAN
    /\ file \in (IF exists THEN InitFiles ELSE {<<>>})
    /\ fresh = ~exists
    /\ out = Out("none", "", "")
    /\ added = <<>>
    /\ csv = <<>>
    /\ InitOthersOfCli

Add == \E a \in AddArgs, today \in Clock : CmdAdd(a, today)

List == \E raw \in BOOLEAN : CmdList(raw)

Bank == \E a \in BankArgs : CmdBank(a.csv, a.id, a.raw)

BankMonth == \E a \in MonthArgs : CmdBankMonth(a.csv, a.month, a.raw)

BankAdd ==
    \E a \in BankAddArgs, today \in Clock :
        CmdBankAdd(a.csv, a.id, a.fecha_col, a.no_interactive, a.replies, today)

Next == Add \/ List \/ Bank \/ BankMonth \/ BankAdd

Spec == Init /\ [][Next]_vars

------------------------------------------------------------------------------
(* The reader: one bank CSV, read in every way the program reads it *)

D_04_09_2025 == <<"0", "4", "/", "0", "9", "/", "2", "0", "2", "5">>
D_4_9_2025 == <<"4", "/", "9", "/", "2", "0", "2", "5">>
D_04_09_2024 == <<"0", "4", "/", "0", "9", "/", "2", "0", "2", "4">>
D_31_09_2025 == <<"3", "1", "/", "0", "9", "/", "2", "0", "2", "5">>

\* first lines: blank, the export's six columns, three columns, a repeated name
ReaderHeaders ==
    {<<>>,
     StatementHeader,
     <<Concepto, Importe, SaldoPosterior>>,
     <<Fecha, Fecha, Concepto, Importe, SaldoPosterior>>}

\* later lines: six and five fields with dates of September 2025, of another
\* year, no date and a blank date; a blank line; a line of four fields
ReaderLines ==
    {<< <<>>, D_04_09_2025, D_4_9_2025, <<" ", "x", " ">>,
        <<"-", "1", "0", ",", "0", "0">>, <<"9", "0", ",", "0", "0">> >>,
     << D_4_9_2025, D_04_09_2025, <<"y">>,
        <<"1", ".", "2", "3", "4", ",", "5", "6">>, <<>> >>,
     << D_04_09_2024, D_04_09_2025, <<"w">>, <<"a", "b", "c">>, <<"0">> >>,
     << D_31_09_2025, D_04_09_2025, <<"v">>, <<"2", ",", "5">>, <<"0">> >>,
     << <<" ">>, D_04_09_2025, <<"u">>, <<"n", "a", "n">>, <<"0">> >>,
     <<>>,
     << D_04_09_2025, <<"t">>, <<"1", ",", "0", "0">>, <<"0">> >>}

RECURSIVE SeqsUpTo(_, _)
SeqsUpTo(S, n) ==
    IF n = 0 THEN {<<>>}
    ELSE LET shorter == SeqsUpTo(S, n - 1)
         IN  shorter \cup {Append(q, x) : q \in shorter, x \in S}

\* the empty file, and every header followed by at most MaxLines lines
CsvFiles ==
    {<<>>} \cup {<<h>> \o ls : h \in ReaderHeaders, ls \in SeqsUpTo(ReaderLines, MaxLines)}

ReaderMonths == {<<"2", "0", "2", "5", "-", "0", "9">>,
                 <<"2", "0", "2", "4", "-", "0", "9">>,
                 <<"2", "0", "2", "5", "-", "9">>}

InitReader ==
    /\ csv \in CsvFiles
    /\ exists \in BOOLEAN
    /\ file = (IF exists THEN dumps(<<>>) ELSE <<>>)
    /\ fresh = ~exists
    /\ out = Out("none", "", "")
    /\ added = <<>>
    /\ InitOthersOfCli

\* _iter_bank_csv_rows(path) applied to the file
Iterate ==
    /\ out' = [Out("iterate", "ok", "") EXCEPT !.rows = _iter_bank_csv_rows(csv)]
    /\ UNCHANGED <<exists, file, added, fresh, csv, OthersOfCli>>

ReaderBank == \E id \in 0..(MaxLines + 1), raw \in BOOLEAN : CmdBank(csv, id, raw)

ReaderBankMonth ==
    \E wanted \in ReaderMonths, raw \in BOOLEAN : CmdBankMonth(csv, wanted, raw)

NextReader == Iterate \/ ReaderBank \/ ReaderBankMonth

SpecReader == InitReader /\ [][NextReader]_vars

------------------------------------------------------------------------------
(* Two callers of add_entry on one store file, and an observer that loads *)

Callers == {"A", "B"}

A_short == Entry([y |-> 2025, m |-> 9, d |-> 4], <<"a">>, Num(100), Num(0))
A_long == Entry([y |-> 2025, m |-> 9, d |-> 4], <<"a", "a">>, Num(100), Num(0))
B_short == Entry([y |-> 2025, m |-> 9, d |-> 5], <<"b">>, Num(0), Num(200))
B_long == Entry([y |-> 2025, m |-> 9, d |-> 5], <<"b", "b">>, Num(0), Num(200))

Logged(p, ev) == [p |-> p, ev |-> ev]

InitConc ==
    /\ base \in {<<>>, <<GoodRow>>}
    /\ cfile = dumps(base)
    /\ entry \in {[p \in Callers |-> IF p = "A" THEN a ELSE b] :
                     a \in {A_short, A_long}, b \in {B_short, B_long}}
    /\ pc = [p \in Callers |-> "start"]
    /\ loaded = [p \in Callers |-> <<>>]
    /\ pending = [p \in Callers |-> <<>>]
    /\ offset = [p \in Callers |-> 0]
    /\ log = <<>>
    /\ seen = Ok(base)
    /\ exists = TRUE
    /\ file = <<>>
    /\ out = Out("none", "", "")
    /\ added = <<>>
    /\ fresh = FALSE
    /\ csv = <<>>

OthersOfConc == <<exists, file, out, added, fresh, csv, base, entry>>

\* add_entry, line 34-35: rows = list(storage.load()); rows.append(serialize(e));
\* then save_all builds the text to write (repositorio.py 22-24)
Load(p) ==
    /\ pc[p] = "start"
    /\ LET rows == load(cfile)
       IN  IF rows.ok
           THEN /\ loaded' = [loaded EXCEPT ![p] = rows.val]
                /\ pending' = [pending EXCEPT ![p] = dumps(AppendRow(rows.val, entry[p]))]
                /\ pc' = [pc EXCEPT ![p] = "loaded"]
                /\ log' = Append(log, Logged(p, "load"))
           ELSE /\ pc' = [pc EXCEPT ![p] = "failed"]
                /\ UNCHANGED <<loaded, pending, log>>
    /\ UNCHANGED <<cfile, offset, seen, OthersOfConc>>

\* save_all: write_text opens the file for writing
Open(p) ==
    /\ pc[p] = "loaded"
    /\ cfile' = Truncate(cfile)
    /\ offset' = [offset EXCEPT ![p] = 0]
    /\ pc' = [pc EXCEPT ![p] = "open"]
    /\ log' = Append(log, Logged(p, "open"))
    /\ UNCHANGED <<loaded, pending, seen, OthersOfConc>>

\* save_all: write_text writes the next chunk of the text at its own offset
Write(p) ==
    /\ pc[p] = "open"
    /\ pending[p] # <<>>
    /\ LET n == IF Len(pending[p]) <= ChunkCells THEN Len(pending[p]) ELSE ChunkCells
       IN  /\ cfile' = WriteAt(cfile, offset[p], SubSeq(pending[p], 1, n))
           /\ offset' = [offset EXCEPT ![p] = offset[p] + n]
           /\ pending' = [pending EXCEPT ![p] = SubSeq(pending[p], n + 1, Len(pending[p]))]
    /\ UNCHANGED <<pc, loaded, log, seen, OthersOfConc>>

\* save_all: everything is written, write_text closes the file and returns
Close(p) ==
    /\ pc[p] = "open"
    /\ pending[p] = <<>>
    /\ pc' = [pc EXCEPT ![p] = "done"]
    /\ log' = Append(log, Logged(p, "close"))
    /\ UNCHANGED <<cfile, loaded, pending, offset, seen, OthersOfConc>>

\* the caller's process is killed while the file is open: save_all is interrupted
Kill(p) ==
    /\ pc[p] = "open"
    /\ pc' = [pc EXCEPT ![p] = "killed"]
    /\ UNCHANGED <<cfile, loaded, pending, offset, log, seen, OthersOfConc>>

\* another process calls storage.load()
Observe ==
    /\ seen' = load(cfile)
    /\ UNCHANGED <<cfile, pc, loaded, pending, offset, log, OthersOfConc>>

NextConc ==
    \/ \E p \in Callers : Load(p)
    \/ \E p \in Callers : Open(p)
    \/ \E p \in Callers : Write(p)
    \/ \E p \in Callers : Close(p)
    \/ \E p \in Callers : Kill(p)
    \/ Observe

SpecConc == InitConc /\ [][NextConc]_vars

------------------------------------------------------------------------------
(* Properties of the CLI *)

\* the rows persisted in the store file, when it exists and decodes
StoredRows == IF exists /\ loads(file).ok THEN loads(file).val ELSE <<>>

\* C1: in a run that started with no store file, `list` succeeds and returns
\* exactly the entries added so far: same length, same order, and each entry
\* with the fecha, concepto, debe and haber of the one added.
C1_ListReturnsAdded ==
    (fresh /\ out.cmd = "list") =>
        /\ out.status = "ok"
        /\ Len(out.entries) = Len(added)
        /\ \A i \in 1..Len(added) :
              /\ out.entries[i].fecha = added[i].fecha
              /\ out.entries[i].concepto = added[i].concepto
              /\ out.entries[i].debe = added[i].debe
              /\ out.entries[i].haber = added[i].haber

\* two different entries were added to a fresh store and then listed
C1_Witness ==
    /\ fresh /\ out.cmd = "list" /\ out.status = "ok"
    /\ Len(added) = 2 /\ added[1] # added[2]
    /\ out.entries = added

\* C5: after any sequence of commands on a store that started empty, every
\* persisted row has debe >= 0 and haber >= 0.
C5_StoredNonNegative ==
    fresh => \A i \in 1..Len(StoredRows) :
                 FGe0(StoredRows[i].debe) /\ FGe0(StoredRows[i].haber)

\* C6: the debe and haber bank-add suggests for a row are both non-negative,
\* at most one of them is nonzero, they are (0, |Importe|) for a negative
\* parsed Importe and (Importe, 0) otherwise, and debe - haber = Importe.
C6_SuggestedSides ==
    (out.cmd = "bank-add" /\ out.status \in {"ok", "raised"}) =>
        LET v == out.sug.importe
            d == out.sug.debe
            h == out.sug.haber
        IN  /\ FGe0(d) /\ FGe0(h)
            /\ FEq(d, Num(0)) \/ FEq(h, Num(0))
            /\ IF FLt0(v) THEN FEq(d, Num(0)) /\ FEq(h, Num(-v.v))
                          ELSE FEq(d, v) /\ FEq(h, Num(0))
            /\ FEq(FSub(d, h), v)

\* a row is malformed: its date is no ISO date, or debe or haber no number
Malformed(row) ==
    \/ ~fromisoformat(row.fecha).ok
    \/ ~ToFloat(row.debe).ok
    \/ ~ToFloat(row.haber).ok

\* C9: a `list` on a store holding at least one malformed row fails as a whole
\* with a format error, returns no entries and leaves the file as it was.
C9_ListAbortsOnMalformedRow ==
    [][(out'.cmd = "list" /\ \E i \in 1..Len(StoredRows) : Malformed(StoredRows[i]))
        => /\ out'.status = "raised"
           /\ out'.err \in {"ValueError", "TypeError"}
           /\ out'.entries = <<>>
           /\ exists' /\ file' = file]_vars

\* a list failed on a store that holds a well-formed row next to a malformed one
C9_Witness ==
    /\ out.cmd = "list" /\ out.status = "raised"
    /\ \E i, j \in 1..Len(StoredRows) :
          Malformed(StoredRows[i]) /\ ~Malformed(StoredRows[j])

\* C10: a successful add or bank-add appends exactly one row to the persisted
\* sequence and keeps every earlier row in place; every other step (building
\* the store on an existing file, list, bank, bank-month, a failed bank-add)
\* leaves the persisted sequence as it was.
C10_AppendOnly ==
    [][IF out'.cmd \in {"add", "bank-add"} /\ out'.status = "ok"
       THEN /\ exists => loads(file).ok
            /\ exists' /\ loads(file').ok
            /\ Len(loads(file').val) = Len(StoredRows) + 1
            /\ SubSeq(loads(file').val, 1, Len(StoredRows)) = StoredRows
       ELSE /\ exists => (exists' /\ file' = file)
            /\ (~exists /\ exists') => (loads(file').ok /\ loads(file').val = <<>>)]_vars

\* an entry was appended behind a row that does not deserialize
C10_Witness ==
    /\ out.cmd \in {"add", "bank-add"} /\ out.status = "ok"
    /\ Len(StoredRows) = 2
    /\ Malformed(StoredRows[1])
    /\ ~Malformed(StoredRows[2])

------------------------------------------------------------------------------
(* Properties of the reader *)

\* what iterate yields for the file
AllRows == _iter_bank_csv_rows(csv)

HasFields(line) == Len(line) >= KeptColumns

\* the lines after the header that have at least five fields, in file order
DataLines == IF csv = <<>> THEN <<>> ELSE SelectSeq(Tail(csv), HasFields)

\* read_row returned the i-th row iterate yields when 1 <= i <= N (N the
\* number of rows iterate yields), and failed with IndexError otherwise
ReadRowIndexesIterate ==
    IF 1 <= out.id /\ out.id <= Len(AllRows)
    THEN out.status = "ok" /\ out.rows = <<AllRows[out.id]>>
    ELSE out.status = "csv-error" /\ out.err = "IndexError"

\* C4 as claimed: for every file, the empty file and a file with a blank first
\* line included, read_row with index i returns the i-th row of iterate's
\* output when 1 <= i <= N and fails with IndexError otherwise.
C4_ReadRowIndexesIterate == out.cmd = "bank" => ReadRowIndexesIterate

\* C4 amended: that holds for every file whose first line has a field.  On an
\* empty file read_row fails with ValueError whatever the index.  On a file
\* whose first line is blank iterate yields nothing, while read_row counts the
\* later lines of at least five fields: it returns an empty mapping for an
\* index from 1 to their number and fails with IndexError otherwise.
C4_ReadRowByFirstLine ==
    out.cmd = "bank" =>
        IF csv = <<>>
        THEN out.status = "csv-error" /\ out.err = "ValueError"
        ELSE IF csv[1] = <<>>
        THEN /\ AllRows = <<>>
             /\ IF 1 <= out.id /\ out.id <= Len(DataLines)
                THEN /\ out.status = "ok"
                     /\ Len(out.rows) = 1 /\ DOMAIN out.rows[1] = {}
                ELSE out.status = "csv-error" /\ out.err = "IndexError"
        ELSE ReadRowIndexesIterate

\* read_row returned the second of two different rows
C4_Witness ==
    /\ out.cmd = "bank" /\ out.status = "ok" /\ out.id = 2
    /\ csv # <<>> /\ csv[1] # <<>>
    /\ Len(AllRows) = 2
    /\ AllRows[1] # AllRows[2]
    /\ out.rows = <<AllRows[2]>>

\* row pairs the k-th of the header's rightmost five names with the k-th of
\* the line's rightmost five values, and has no other entry
PairsRightmost(row, header, line) ==
    /\ Len(header) >= KeptColumns
    /\ Cardinality(DOMAIN row) = KeptColumns
    /\ \A k \in 1..KeptColumns :
          /\ header[Len(header) - KeptColumns + k] \in DOMAIN row
          /\ row[header[Len(header) - KeptColumns + k]] =
                line[Len(line) - KeptColumns + k]

IterateYieldsDataLines ==
    /\ Len(out.rows) = Len(DataLines)
    /\ \A j \in 1..Len(DataLines) : PairsRightmost(out.rows[j], csv[1], DataLines[j])

\* C7 as claimed: for every file, iterate yields in file order one mapping of
\* exactly five entries for each line after the header that has at least five
\* fields, and none for any other line.
C7_IterateEveryFile == out.cmd = "iterate" => IterateYieldsDataLines

\* the first line has at least five fields and its rightmost five are distinct
FiveDistinctNames ==
    /\ csv # <<>>
    /\ Len(csv[1]) >= KeptColumns
    /\ Cardinality({csv[1][Len(csv[1]) - KeptColumns + k] : k \in 1..KeptColumns})
          = KeptColumns

\* C7 amended: the same, for every file whose first line has at least five
\* fields, the rightmost five of them pairwise distinct.
C7_IterateFiveDistinctNames ==
    (out.cmd = "iterate" /\ FiveDistinctNames) => IterateYieldsDataLines

\* iterate skipped a short line and kept the six-field line after it
C7_Witness ==
    /\ out.cmd = "iterate" /\ FiveDistinctNames
    /\ Len(csv) = 3
    /\ csv[2] # <<>> /\ Len(csv[2]) < KeptColumns
    /\ Len(csv[3]) > KeptColumns
    /\ Len(out.rows) = 1

\* a target month in the form YYYY-MM
IsYearMonth(w) ==
    Len(w) = 7 /\ w[5] = "-" /\ AllDigits(SubSeq(w, 1, 4)) /\ AllDigits(SubSeq(w, 6, 7))

\* the row's "Fecha" is non-empty, is a DD/MM/YYYY date, and falls in month w
InMonth(row, w) ==
    /\ Fecha \in DOMAIN row
    /\ row[Fecha] # <<>>
    /\ _parse_ddmmyyyy(row[Fecha]).ok
    /\ _parse_ddmmyyyy(row[Fecha]).val.y = NumVal(SubSeq(w, 1, 4))
    /\ _parse_ddmmyyyy(row[Fecha]).val.m = NumVal(SubSeq(w, 6, 7))

\* the parsed Importe of the rows at the positions in I, added up
RECURSIVE ImporteOver(_, _)
ImporteOver(rows, I) ==
    IF I = {} THEN Num(0)
    ELSE LET i == CHOOSE x \in I : TRUE
         IN  FAdd(_parse_euro_amount(IF Importe \in DOMAIN rows[i]
                                     THEN rows[i][Importe] ELSE <<>>),
                  ImporteOver(rows, I \ {i}))

\* C8: for a target month YYYY-MM bank-month keeps exactly the rows whose Fecha
\* is non-empty, parses as DD/MM/YYYY and lies in that year and month, in
\* their order; the count it reports is the number of kept rows and the total
\* the sum of their parsed Importe.
C8_MonthFilter ==
    (out.cmd = "bank-month" /\ IsYearMonth(out.wanted)) =>
        LET kept == {i \in 1..Len(AllRows) : InMonth(AllRows[i], out.wanted)}
        IN  /\ out.status = (IF kept = {} THEN "empty" ELSE "ok")
            /\ out.status = "ok" =>
                  /\ Len(out.rows) = Cardinality(kept)
                  /\ \A j \in 1..Len(out.rows) :
                        \E i \in kept :
                            /\ Cardinality({x \in kept : x <= i}) = j
                            /\ out.rows[j] = AllRows[i]
            /\ out.reported =>
                  /\ out.count = Cardinality(kept)
                  /\ out.total = ImporteOver(AllRows, kept)

\* bank-month kept one of two dated rows (the other lies in another year) and
\* reported its count and its total
C8_Witness ==
    /\ out.cmd = "bank-month" /\ IsYearMonth(out.wanted)
    /\ Len(AllRows) = 2
    /\ \A i \in 1..2 : Fecha \in DOMAIN AllRows[i] /\ _parse_ddmmyyyy(AllRows[i][Fecha]).ok
    /\ out.reported /\ out.count = 1
    /\ out.total # Num(0)

------------------------------------------------------------------------------
(* Properties of concurrent callers *)

\* event ev of caller p is in the log, at position i
At(i, p, ev) == i \in 1..Len(log) /\ log[i] = Logged(p, ev)

\* p closed the file before q opened it
SavedBefore(p, q) ==
    \E i, j \in 1..Len(log) : i < j /\ At(i, p, "close") /\ At(j, q, "open")

\* both callers loaded before either opened the file for writing
BothLoadedFirst ==
    \A i, j \in 1..Len(log) :
        (log[i].ev = "load" /\ log[j].ev = "open") => i < j

\* what the file decodes to is the rows before the callers plus the entry of q
HoldsOnly(q) ==
    /\ loads(cfile).ok
    /\ Len(loads(cfile).val) = Len(base) + 1
    /\ SubSeq(loads(cfile).val, 1, Len(base)) = base
    /\ deserialize(loads(cfile).val[Len(base) + 1]).ok
    /\ deserialize(loads(cfile).val[Len(base) + 1]).val = entry[q]

\* C2: when both callers load before either saves and then save one after the
\* other, the store ends up holding the previous rows plus only the entry of
\* the caller that saved last; the other caller's entry is lost.
C2_LastWriterWins ==
    \A p, q \in Callers :
        (/\ p # q
         /\ pc[p] = "done" /\ pc[q] = "done"
         /\ BothLoadedFirst
         /\ SavedBefore(p, q))
        => HoldsOnly(q)

\* the lost update: both callers loaded, then A saved, then B saved, and the
\* store holds B's entry but not A's
C2_Witness ==
    /\ pc["A"] = "done" /\ pc["B"] = "done"
    /\ BothLoadedFirst
    /\ SavedBefore("A", "B")
    /\ HoldsOnly("B")
    /\ \A i \in 1..Len(loads(cfile).val) :
          loads(cfile).val[i] # serialize(entry["A"])

\* C3: a load by another process, while a save_all is in progress or after one
\* was interrupted, returns the complete sequence persisted before or the
\* complete sequence some caller is saving, and never fails to decode.
C3_LoadSeesWholeSequence ==
    /\ seen.ok
    /\ \/ seen.val = base
       \/ \E p \in Callers :
             /\ pc[p] \in {"open", "done", "killed"}
             /\ seen.val = Append(loaded[p], serialize(entry[p]))

====
